---------------------------- MODULE Spec2Model ----------------------------
(***************************************************************************)
(* Model of the class-attendance Telegram bot (src/bot.py).                *)
(*                                                                         *)
(* State: the class_attendance table, the connection pool's count of       *)
(* checked-out connections, and the observable outcome of the last         *)
(* handler invocation (reply_text calls, what error_handler printed).      *)
(* One action per command handler.  The database section of a handler      *)
(* contains no await, so a handler is one atomic step; the environment     *)
(* (storage faults, failing sends, the user's profile, the clock) is an    *)
(* input of the step.                                                      *)
(*                                                                         *)
(* A Python str is a sequence of one-character strings.                    *)
(***************************************************************************)
EXTENDS Integers, Sequences, FiniteSets, Bags, TLC

\* ------------------------------------------------------------------ bounds
\* Largest number of rows the table is allowed to hold in the model.
MaxRows == 3
\* Largest number of lost connections explored by Spec.
MaxLost == 1

\* ------------------------------------------------------- program constants
\* DatabaseManager.__init__(..., max_conn=10)
max_conn == 10
\* credits_left = 100 - total_classes
Allowance == 100

None == "None"

\* ----------------------------------------------------------------- strings
Digits == {"0", "1", "2", "3", "4", "5", "6", "7", "8", "9"}

DigitVal(c) ==
    CASE c = "0" -> 0 [] c = "1" -> 1 [] c = "2" -> 2 [] c = "3" -> 3
      [] c = "4" -> 4 [] c = "5" -> 5 [] c = "6" -> 6 [] c = "7" -> 7
      [] c = "8" -> 8 [] c = "9" -> 9

DigitChar(n) ==
    CASE n = 0 -> "0" [] n = 1 -> "1" [] n = 2 -> "2" [] n = 3 -> "3"
      [] n = 4 -> "4" [] n = 5 -> "5" [] n = 6 -> "6" [] n = 7 -> "7"
      [] n = 8 -> "8" [] n = 9 -> "9"

\* ' '.join(context.args)
RECURSIVE join(_)
join(args) ==
    IF Len(args) = 0 THEN << >>
    ELSE IF Len(args) = 1 THEN args[1]
    ELSE args[1] \o <<" ">> \o join(Tail(args))

\* ------------------------------------------------------------------- dates
\* A date is <<year, month, day>>.
IsLeap(y) == (y % 4 = 0 /\ y % 100 # 0) \/ y % 400 = 0

DaysInMonth(y, m) ==
    IF m = 2 THEN (IF IsLeap(y) THEN 29 ELSE 28)
    ELSE IF m \in {4, 6, 9, 11} THEN 30 ELSE 31

\* class_date ORDER BY class_date
DateLE(a, b) ==
    \/ a[1] < b[1]
    \/ a[1] = b[1] /\ a[2] < b[2]
    \/ a[1] = b[1] /\ a[2] = b[2] /\ a[3] <= b[3]

ValueError == [ok |-> FALSE, date |-> <<0, 0, 0>>]

\* %m at position p of s: 1[0-2] | 0[1-9] | [1-9], the alternative being
\* the first one after which the literal '-' matches.
MonthAt(s, p) ==
    IF /\ Len(s) >= p + 2
       /\ \/ s[p] = "1" /\ s[p + 1] \in {"0", "1", "2"}
          \/ s[p] = "0" /\ s[p + 1] \in Digits \ {"0"}
       /\ s[p + 2] = "-"
    THEN [n |-> 2, v |-> 10 * DigitVal(s[p]) + DigitVal(s[p + 1])]
    ELSE IF Len(s) >= p + 1 /\ s[p] \in Digits \ {"0"} /\ s[p + 1] = "-"
    THEN [n |-> 1, v |-> DigitVal(s[p])]
    ELSE [n |-> 0, v |-> 0]

\* %d at position p of s: 3[01] | [12]\d | 0[1-9] | [1-9] | ' '[1-9],
\* first alternative that matches.
DayAt(s, p) ==
    IF /\ Len(s) >= p + 1
       /\ \/ s[p] = "3" /\ s[p + 1] \in {"0", "1"}
          \/ s[p] \in {"1", "2"} /\ s[p + 1] \in Digits
          \/ s[p] = "0" /\ s[p + 1] \in Digits \ {"0"}
    THEN [n |-> 2, v |-> 10 * DigitVal(s[p]) + DigitVal(s[p + 1])]
    ELSE IF Len(s) >= p /\ s[p] \in Digits \ {"0"}
    THEN [n |-> 1, v |-> DigitVal(s[p])]
    ELSE IF Len(s) >= p + 1 /\ s[p] = " " /\ s[p + 1] \in Digits \ {"0"}
    THEN [n |-> 2, v |-> DigitVal(s[p + 1])]
    ELSE [n |-> 0, v |-> 0]

\* datetime.strptime(s, '%Y-%m-%d').date()
strptime(s) ==
    IF ~ (/\ Len(s) >= 5
          /\ \A i \in 1..4 : s[i] \in Digits
          /\ s[5] = "-")
    THEN ValueError
    ELSE
      LET y  == 1000 * DigitVal(s[1]) + 100 * DigitVal(s[2])
                + 10 * DigitVal(s[3]) + DigitVal(s[4])
          mm == MonthAt(s, 6)
          dp == 6 + mm.n + 1
          dd == DayAt(s, dp)
      IN  IF mm.n = 0 \/ dd.n = 0 THEN ValueError
          \* "unconverted data remains"
          ELSE IF dp + dd.n - 1 # Len(s) THEN ValueError
          \* "year ... is out of range", "day is out of range for month"
          ELSE IF y < 1 \/ dd.v > DaysInMonth(y, mm.v) THEN ValueError
          ELSE [ok |-> TRUE, date |-> <<y, mm.v, dd.v>>]

\* str(d) and d.strftime('%Y-%m-%d')
isoformat(d) ==
    << DigitChar(d[1] \div 1000), DigitChar((d[1] \div 100) % 10),
       DigitChar((d[1] \div 10) % 10), DigitChar(d[1] % 10), "-",
       DigitChar(d[2] \div 10), DigitChar(d[2] % 10), "-",
       DigitChar(d[3] \div 10), DigitChar(d[3] % 10) >>


\* ------------------------------------------------------------------ inputs
\* update.effective_user: numeric id, optional username, first name.
\* User 1 has the username "sam"; user 2 has no username and the first
\* name "sam", or has taken the username "kim".
EffectiveUsers ==
    { [id |-> 1, username |-> "sam", first_name |-> "kim"],
      [id |-> 2, username |-> None,  first_name |-> "sam"],
      [id |-> 2, username |-> "kim", first_name |-> "sam"] }

\* The user of the updates whose handler never reads effective_user, and of
\* SpecPool.
PoolUser == [id |-> 1, username |-> "sam", first_name |-> "kim"]

\* date.today() as read by one invocation
Todays == { <<2024, 11, 27>> }

Str_2024_11_27 == <<"2","0","2","4","-","1","1","-","2","7">>
Str_2024_02_09 == <<"2","0","2","4","-","0","2","-","0","9">>
Str_2024_2_9   == <<"2","0","2","4","-","2","-","9">>
Str_slashes    == <<"2","0","2","4","/","1","1","/","2","7">>
Str_2024_11    == <<"2","0","2","4","-","1","1">>
Str_2024_xx_27 == <<"2","0","2","4","-","x","x","-","2","7">>
Str_2024_02_30 == <<"2","0","2","4","-","0","2","-","3","0">>
Str_now        == <<"n","o","w">>

\* context.args: the whitespace-separated tokens after the command
ArgLists ==
    { << >>,
      <<Str_2024_11_27>>, <<Str_2024_02_09>>, <<Str_2024_2_9>>,
      <<Str_slashes>>, <<Str_2024_11>>, <<Str_2024_xx_27>>,
      <<Str_2024_02_30>>, <<Str_2024_11_27, Str_now>> }

\* What the storage does to one invocation:
\*   none   the statement and the commit succeed
\*   error  getconn, cursor or execute raises; the commit of the finally
\*          block returns (a failed transaction is rolled back by it)
\*   lost   the connection is lost: execute or the commit raises, and the
\*          commit of the finally block raises
Faults == {"none", "error", "lost"}

\* ------------------------------------------------------------------- state
VARIABLES
    rows,   \* class_attendance: bag of [user_id, username, class_date];
            \* the SERIAL id is never read, it makes equal rows distinct
    used,   \* connections checked out of SimpleConnectionPool (len(_used))
    last    \* the last invocation: command, user_id (0 when the handler
            \* did not read it), argument text, rows deleted, reply_text
            \* calls (text, delivered or raised), exception printed by
            \* error_handler

vars == <<rows, used, last>>

\* -------------------------------------------------------------- the table
\* INSERT INTO class_attendance (user_id, username, class_date) VALUES ...
InsertRow(rs, user_id, username, class_date) ==
    rs (+) SetToBag({[user_id |-> user_id, username |-> username,
                      class_date |-> class_date]})

\* (variant: the user_id condition left out of the WHERE clause)
WhereDateOnly(r, user_id, class_date) ==
    r.class_date = class_date

\* WHERE user_id = %s AND class_date = %s
WhereUserDate(r, user_id, class_date) ==
    r.user_id = user_id /\ r.class_date = class_date

RECURSIVE CountOf(_, _)
\* COUNT(*) over the rows in S
CountOf(rs, S) ==
    IF S = {} THEN 0
    ELSE LET r == CHOOSE x \in S : TRUE
         IN  rs[r] + CountOf(rs, S \ {r})

\* (variant: the DELETE capped at one row)
DeleteOneWhere(rs, user_id, class_date) ==
    LET M == {x \in DOMAIN rs : WhereUserDate(x, user_id, class_date)}
    IN  IF M = {} THEN rs
        ELSE rs (-) SetToBag({CHOOSE x \in M : TRUE})

\* DELETE FROM class_attendance WHERE user_id = %s AND class_date = %s
DeleteWhere(rs, user_id, class_date) ==
    [r \in {x \in DOMAIN rs : ~ WhereUserDate(x, user_id, class_date)}
        |-> rs[r]]

\* cur.rowcount after the DELETE
rowcount(rs, user_id, class_date) ==
    CountOf(rs, {x \in DOMAIN rs : WhereUserDate(x, user_id, class_date)})

\* -------------------------------------------------------- the connection
\* DatabaseManager.get_db_cursor around one statement.  exc is the
\* exception that leaves the with block, applied whether the statement's
\* effect is committed, used the pool's checked-out count afterwards:
\* putconn is reached only when commit returns.  A commit that raises is
\* taken not to have committed.
get_db_cursor(checked_out, fault) ==
    IF checked_out >= max_conn
    THEN [exc |-> "PoolError", applied |-> FALSE, used |-> checked_out]
    ELSE CASE fault = "none" ->
                [exc |-> "none", applied |-> TRUE, used |-> checked_out]
           [] fault = "error" ->
                [exc |-> "DatabaseError", applied |-> FALSE,
                 used |-> checked_out]
           [] fault = "lost" ->
                [exc |-> "DatabaseError", applied |-> FALSE,
                 used |-> checked_out + 1]

\* ---------------------------------------------------------------- replies
Text(msg, arg) == [msg |-> msg, arg |-> arg]

\* one await update.message.reply_text(text): delivered, or it raised
Call(text, ok) == [text |-> text, ok |-> ok]

\* update.effective_user.username or update.effective_user.first_name
DisplayName(user) ==
    IF user.username # None THEN user.username ELSE user.first_name

\* A handler whose try block is guarded by "except Exception": the reply
\* of the try block, or the error reply when the block raised (the
\* statement, or the send of the reply itself); an exception raised by the
\* error reply reaches error_handler.
CatchAll(exc, reply, error_msg, ok1, ok2) ==
    IF exc # "none"
    THEN [calls |-> <<Call(Text(error_msg, exc), ok1)>>,
          logged |-> IF ok1 THEN "none" ELSE "NetworkError"]
    ELSE IF ok1
    THEN [calls |-> <<Call(reply, TRUE)>>, logged |-> "none"]
    ELSE [calls |-> <<Call(reply, FALSE),
                      Call(Text(error_msg, "NetworkError"), ok2)>>,
          logged |-> IF ok2 THEN "none" ELSE "NetworkError"]

\* A handler whose try block is guarded by "except (ValueError,
\* IndexError)": the usage hint when the date did not parse; any other
\* exception (of the statement, of a reply_text) reaches error_handler,
\* which prints it and sends nothing.
CatchValueError(parsed, exc, reply, usage, ok1) ==
    IF ~ parsed
    THEN [calls |-> <<Call(usage, ok1)>>,
          logged |-> IF ok1 THEN "none" ELSE "NetworkError"]
    ELSE IF exc # "none"
    THEN [calls |-> << >>, logged |-> exc]
    ELSE [calls |-> <<Call(reply, ok1)>>,
          logged |-> IF ok1 THEN "none" ELSE "NetworkError"]

\* What one invocation leaves to observe.
Outcome(cmd, user_id, input_date, deleted_rows, o) ==
    [cmd |-> cmd, user_id |-> user_id, input_date |-> input_date,
     deleted_rows |-> deleted_rows, calls |-> o.calls, logged |-> o.logged]

\* ------------------------------------------------------- the report query
\* GROUP BY username
Usernames(rs) == {r.username : r \in DOMAIN rs}

GroupOf(rs, username) == {r \in DOMAIN rs : r.username = username}

RECURSIVE array_agg(_, _)
\* array_agg(class_date ORDER BY class_date) over the rows in S
array_agg(rs, S) ==
    IF S = {} THEN << >>
    ELSE LET d    == CHOOSE x \in {r.class_date : r \in S} :
                        \A r \in S : DateLE(x, r.class_date)
             same == {r \in S : r.class_date = d}
         IN  [i \in 1..CountOf(rs, same) |-> d] \o array_agg(rs, S \ same)

\* The rows of the CTE "stats": one row per username.  The window
\* function is evaluated after GROUP BY, over the grouped rows, so
\* user_count counts the grouped rows that share the username.
stats(rs) ==
    { [total_classes |-> CountOf(rs, GroupOf(rs, n)),
       username      |-> n,
       dates         |-> array_agg(rs, GroupOf(rs, n)),
       user_count    |-> Cardinality({m \in Usernames(rs) : m = n})] :
      n \in Usernames(rs) }

\* SELECT ... FROM stats ORDER BY user_count DESC; cur.fetchall().
\* Rows with equal user_count come in an order SQL leaves unspecified.
fetchall(rs) ==
    LET S == stats(rs)
        n == Cardinality(S)
    IN  { q \in [1..n -> S] :
            /\ \A i, j \in 1..n : i # j => q[i] # q[j]
            /\ \A i, j \in 1..n :
                 i < j => q[i].user_count >= q[j].user_count }

\* The message check_classes builds from results.
Report(results) ==
    [msg      |-> "Total classes taken",
     total    |-> results[1].total_classes,
     credits  |-> Allowance - results[1].total_classes,
     sections |-> [i \in 1..Len(results) |->
                     [username  |-> results[i].username,
                      date_list |-> [j \in 1..Len(results[i].dates) |->
                                       isoformat(results[i].dates[j])],
                      count     |-> Len(results[i].dates)]]]

\* ---------------------------------------------------------------- handlers
Init ==
    /\ rows = EmptyBag
    /\ used = 0
    /\ last = [cmd |-> "none", user_id |-> 0, input_date |-> << >>,
               deleted_rows |-> 0, calls |-> << >>, logged |-> "none"]

start(ok1) ==
    /\ last' = Outcome("start", 0, << >>, 0,
                       [calls |-> <<Call(Text("Commands", << >>), ok1)>>,
                        logged |-> IF ok1 THEN "none" ELSE "NetworkError"])
    /\ UNCHANGED <<rows, used>>

record_today(user, today, fault, ok1, ok2) ==
    LET db == get_db_cursor(used, fault)
    IN  /\ db.applied => BagCardinality(rows) < MaxRows
        /\ rows' = IF db.applied
                   THEN InsertRow(rows, user.id, DisplayName(user), today)
                   ELSE rows
        /\ used' = db.used
        /\ last' = Outcome("today", user.id, << >>, 0,
                     CatchAll(db.exc,
                        Text("Recorded class for today", isoformat(today)),
                        "Error recording today's class", ok1, ok2))

\* (variant: only context.args[0] is parsed)
ParseFirstArg(args) ==
    IF Len(args) = 0 THEN ValueError ELSE strptime(args[1])

\* input_date = ' '.join(context.args); strptime(input_date, '%Y-%m-%d')
ParseArgs(args) == strptime(join(args))

\* The with block of a handler that parses a date first: it is entered
\* only when the date parsed.
AfterParse(parsed, checked_out, fault) ==
    IF parsed THEN get_db_cursor(checked_out, fault)
    ELSE [exc |-> "none", applied |-> FALSE, used |-> checked_out]

\* ParseArgs and join over the argument lists, computed once
Parsed == [a \in ArgLists |-> ParseArgs(a)]

Joined == [a \in ArgLists |-> join(a)]

record_specific_date(user, args, fault, ok1) ==
    LET p  == Parsed[args]
        db == AfterParse(p.ok, used, fault)
    IN  /\ db.applied => BagCardinality(rows) < MaxRows
        /\ rows' = IF db.applied
                   THEN InsertRow(rows, user.id, DisplayName(user), p.date)
                   ELSE rows
        /\ used' = db.used
        /\ last' = Outcome("record", IF p.ok THEN user.id ELSE 0,
                     Joined[args], 0,
                     CatchValueError(p.ok, db.exc,
                        Text("Recorded class for", isoformat(p.date)),
                        Text("Please provide a date in YYYY-MM-DD format",
                             "/record"), ok1))

remove_date(user, args, fault, ok1) ==
    LET p  == Parsed[args]
        db == AfterParse(p.ok, used, fault)
        deleted_rows == IF db.applied THEN rowcount(rows, user.id, p.date)
                        ELSE 0
    IN  /\ rows' = IF db.applied
                   THEN DeleteWhere(rows, user.id, p.date)
                   ELSE rows
        /\ used' = db.used
        /\ last' = Outcome("remove", IF p.ok THEN user.id ELSE 0,
                     Joined[args], deleted_rows,
                     CatchValueError(p.ok, db.exc,
                        IF deleted_rows > 0
                        THEN Text("Removed class record for",
                                  isoformat(p.date))
                        ELSE Text("No class record found for",
                                  isoformat(p.date)),
                        Text("Please provide a date in YYYY-MM-DD format",
                             "/remove"), ok1))

check_classes(results, fault, ok1, ok2) ==
    LET db == get_db_cursor(used, fault)
    IN  /\ results \in fetchall(rows)
        /\ used' = db.used
        /\ last' = Outcome("check", 0, << >>, 0,
                     CatchAll(db.exc,
                        IF results = << >>
                        THEN Text("No classes recorded", << >>)
                        ELSE Report(results),
                        "Error checking classes", ok1, ok2))
        /\ UNCHANGED rows

\* ------------------------------------------------------------ environments
\* The environment of one invocation of a handler that catches every
\* exception: the storage fault and whether the first and the second
\* reply_text return.  A second reply_text happens only after the first
\* one raised.
Environments ==
    { e \in [fault : Faults, ok1 : BOOLEAN, ok2 : BOOLEAN] :
        ~ e.ok2 => (e.fault = "none" /\ ~ e.ok1) }

\* A /record or /remove update with its environment: effective_user is
\* read, and the storage is reached and can fail, only when the date
\* parsed; a reply_text is made, and can raise, unless the storage failed.
DateCommands ==
    { c \in [user : EffectiveUsers, args : ArgLists, fault : Faults,
             ok1 : BOOLEAN] :
        /\ ~ Parsed[c.args].ok => (c.fault = "none" /\ c.user = PoolUser)
        /\ ~ c.ok1 => c.fault = "none" }

\* Spec explores at most MaxLost lost connections.
MayFail(fault) == fault = "lost" => used < MaxLost

Next ==
    \/ \E ok1 \in BOOLEAN : start(ok1)
    \/ \E user \in EffectiveUsers, today \in Todays, e \in Environments :
            MayFail(e.fault) /\ record_today(user, today, e.fault, e.ok1, e.ok2)
    \/ \E c \in DateCommands :
            /\ MayFail(c.fault)
            /\ record_specific_date(c.user, c.args, c.fault, c.ok1)
    \/ \E c \in DateCommands :
            /\ MayFail(c.fault)
            /\ remove_date(c.user, c.args, c.fault, c.ok1)
    \/ \E results \in fetchall(rows), e \in Environments :
            MayFail(e.fault) /\ check_classes(results, e.fault, e.ok1, e.ok2)

Spec == Init /\ [][Next]_vars

\* SpecPool: any number of lost connections, one user, two argument lists.

PoolArgLists == { <<Str_2024_11_27>>, <<Str_2024_11>> }

NextPool ==
    \/ \E ok1 \in BOOLEAN : start(ok1)
    \/ \E today \in Todays, e \in Environments :
            record_today(PoolUser, today, e.fault, e.ok1, e.ok2)
    \/ \E c \in DateCommands :
            /\ c.user = PoolUser /\ c.args \in PoolArgLists
            /\ record_specific_date(c.user, c.args, c.fault, c.ok1)
    \/ \E c \in DateCommands :
            /\ c.user = PoolUser /\ c.args \in PoolArgLists
            /\ remove_date(c.user, c.args, c.fault, c.ok1)
    \/ \E results \in fetchall(rows), e \in Environments :
            check_classes(results, e.fault, e.ok1, e.ok2)

SpecPool == Init /\ [][NextPool]_vars

\* ================================================================== claims
\* The texts handed to reply_text by the invocation that left outcome o.
Msgs(o) == {o.calls[i].text.msg : i \in DOMAIN o.calls}

\* The report delivered by the last invocation, if it delivered one.
Reports ==
    {last.calls[i].text : i \in {j \in DOMAIN last.calls :
                              /\ last.calls[j].ok
                              /\ last.calls[j].text.msg = "Total classes taken"}}

StorageErrors == {"DatabaseError", "PoolError"}

Usage == "Please provide a date in YYYY-MM-DD format"

\* strptime of every argument text an invocation can have received
Strptime == [t \in {join(a) : a \in ArgLists} |-> strptime(t)]

\* COUNT(*) of the rows of rs that match (user_id, class_date)
Matching(rs, user_id, class_date) ==
    CountOf(rs, {r \in DOMAIN rs :
                    r.user_id = user_id /\ r.class_date = class_date})

\* C1: in every storing or reading handler a storage error is caught in the
\* handler and answered with a reply: a storage exception never ends at
\* error_handler with no reply_text call made.
C1_StorageErrorIsReplied ==
    last.logged \in StorageErrors => last.calls # << >>

\* C2: when the argument text does not parse as a date, record_specific_date
\* and remove_date leave the table as it was and make exactly one reply, the
\* usage hint.
C2_MalformedDateLeavesStore ==
    [][ ( /\ last'.cmd \in {"record", "remove"}
          /\ ~ Strptime[last'.input_date].ok )
        => /\ rows' = rows
           /\ Len(last'.calls) = 1
           /\ last'.calls[1].text.msg = Usage ]_vars

C2_Witness ==
    /\ last.cmd \in {"record", "remove"}
    /\ ~ Strptime[last.input_date].ok
    /\ Msgs(last) = {Usage}
    /\ rows # EmptyBag

\* C3: a confirmed /record adds one row even when an equal row exists; a
\* /remove that ran its statement leaves no row of that user and date,
\* answers with the confirmation when there was at least one (all duplicates
\* go in the one call) and with the not-found text when there was none, in
\* which case it deletes nothing.
C3_DuplicatesRecordedAndRemoved ==
    [][ LET u == last'.user_id
            d == Strptime[last'.input_date].date
        IN  /\ ( /\ last'.cmd = "record"
                 /\ "Recorded class for" \in Msgs(last') )
               => /\ BagCardinality(rows') = BagCardinality(rows) + 1
                  /\ Matching(rows', u, d) = Matching(rows, u, d) + 1
            /\ ( /\ last'.cmd = "remove"
                 /\ Strptime[last'.input_date].ok
                 /\ last'.logged \notin StorageErrors )
               => /\ Matching(rows', u, d) = 0
                  /\ last'.deleted_rows = Matching(rows, u, d)
                  /\ Matching(rows, u, d) > 0
                       => Msgs(last') = {"Removed class record for"}
                  /\ Matching(rows, u, d) = 0
                       => /\ Msgs(last') = {"No class record found for"}
                          /\ rows' = rows ]_vars

C3_Witness ==
    /\ last.cmd = "remove"
    /\ "Removed class record for" \in Msgs(last)
    /\ last.deleted_rows >= 2

\* C4: the sections of the report come in descending order of their number
\* of rows.
C4_GroupsDescending ==
    \A rep \in Reports :
        \A i, j \in DOMAIN rep.sections :
            i < j => rep.sections[i].count >= rep.sections[j].count

\* C5: the total shown by the report is the number of rows of the username
\* that has the most rows.
C5_TotalIsLargestGroup ==
    \A rep \in Reports :
        /\ \A n \in Usernames(rows) : rep.total >= CountOf(rows, GroupOf(rows, n))
        /\ \E n \in Usernames(rows) : rep.total = CountOf(rows, GroupOf(rows, n))

\* C6: the report has one section per user_id that has rows, and the section
\* lists exactly that user's dates, ascending.
C6_SectionsArePerUser ==
    \A rep \in Reports :
        LET ids == {r.user_id : r \in DOMAIN rows}
            DatesOf(u) ==
                LET ds == array_agg(rows, {r \in DOMAIN rows : r.user_id = u})
                IN  [k \in 1..Len(ds) |-> isoformat(ds[k])]
        IN  /\ Len(rep.sections) = Cardinality(ids)
            /\ \A u \in ids :
                 \E i \in DOMAIN rep.sections :
                     rep.sections[i].date_list = DatesOf(u)

\* C7: remove_date touches only the rows of the calling user_id and the
\* parsed date; it answers with the confirmation exactly when it deleted a
\* row, answers not-found only when no row matched, and when its statement
\* ran it deleted every matching row and made one reply, the confirmation
\* or the not-found text, naming the date.
C7_RemoveFrame ==
    [][ LET u == last'.user_id
            d == Strptime[last'.input_date].date
        IN  ( /\ last'.cmd = "remove"
              /\ Strptime[last'.input_date].ok )
            => /\ \A r \in DOMAIN rows \cup DOMAIN rows' :
                    ~ (r.user_id = u /\ r.class_date = d)
                      => CopiesIn(r, rows') = CopiesIn(r, rows)
               /\ ("Removed class record for" \in Msgs(last'))
                    <=> BagCardinality(rows') < BagCardinality(rows)
               /\ ("No class record found for" \in Msgs(last'))
                    => (rows' = rows /\ Matching(rows, u, d) = 0)
               /\ last'.logged \notin StorageErrors
                    => /\ Matching(rows', u, d) = 0
                       /\ Len(last'.calls) = 1
                       /\ last'.calls[1].text.msg
                            \in {"Removed class record for",
                                 "No class record found for"}
                       /\ last'.calls[1].text.arg = isoformat(d) ]_vars

C7_Witness ==
    /\ last.cmd = "remove"
    /\ "Removed class record for" \in Msgs(last)
    /\ \E r \in DOMAIN rows :
         r.user_id # last.user_id
           /\ r.class_date = Strptime[last.input_date].date
    /\ \E r \in DOMAIN rows :
         r.user_id = last.user_id
           /\ r.class_date # Strptime[last.input_date].date

\* C8: between invocations no connection is checked out of the pool.
C8_ConnectionsReturned == used = 0

\* C9: a valid command that meets no storage fault and no failing send is
\* served: /today and /record add their row and confirm, /remove answers
\* removed or not-found, /check answers with the report or the empty text,
\* whatever happened to earlier invocations.
C9_HealthyStoreServes ==
    [][ /\ \A today \in Todays :
             record_today(PoolUser, today, "none", TRUE, TRUE)
             => /\ Msgs(last') = {"Recorded class for today"}
                /\ BagCardinality(rows') = BagCardinality(rows) + 1
        /\ ( \/ record_specific_date(PoolUser, <<Str_2024_11_27>>, "none", TRUE)
             \/ remove_date(PoolUser, <<Str_2024_11_27>>, "none", TRUE) )
           => Msgs(last') \in { {"Recorded class for"},
                                {"Removed class record for"},
                                {"No class record found for"} }
        /\ \A results \in fetchall(rows) :
             check_classes(results, "none", TRUE, TRUE)
             => \/ Msgs(last') = {"No classes recorded"}
                \/ Msgs(last') = {"Total classes taken"} ]_vars

\* C10: a record command confirms only after its row is in the table, and
\* an invocation that sends the error reply has added no row.
C10_ReplyAgreesWithStore ==
    [][ /\ ( /\ last'.cmd \in {"today", "record"}
             /\ Msgs(last') \cap {"Recorded class for today",
                                  "Recorded class for"} # {} )
           => BagCardinality(rows') = BagCardinality(rows) + 1
        /\ ( /\ last'.cmd = "today"
             /\ "Error recording today's class" \in Msgs(last') )
           => rows' = rows ]_vars

=============================================================================
